---- MODULE Spec2Model ----
(***************************************************************************)
(* Backup / restore / synchronisation core of daily_takings.               *)
(*                                                                         *)
(*   GoogleDriveAPI  (src/src/utils/GoogleDriveAPI.ts)  the remote client  *)
(*   FileManager     (src/unnamed/part_002)             record store,      *)
(*                                                      codec, orchestrator*)
(*   BackupManager   (src/unnamed/part_004)             local restore      *)
(*   GoogleDriveBackup (src/src/components/GoogleDriveBackup.tsx)          *)
(*                                                      the Drive panel    *)
(*                                                                         *)
(* The specifications share the variables:                                 *)
(*   SpecDrive     the GoogleDriveAPI instance and the remote store        *)
(*   SpecFiles     restoreFromBackup on the files a user can pick          *)
(*   SpecBackup    createBackup and the restore of what it produced        *)
(*   SpecList      listSalesFiles on a populated directory                 *)
(*   SpecSync      the Google Drive operations of FileManager              *)
(*   SpecRace      uploadBackup and listBackups calls in flight together   *)
(*   SpecSignIn    signIn one await at a time, with fairness               *)
(*   SpecValidate  validateBackupFile applied to a drawn candidate file    *)
(*   SpecRestore   the restore of a picked file and the restore from Drive *)
(*   SpecPanel     the handlers of the Drive panel, their awaits in flight *)
(***************************************************************************)
EXTENDS Integers, Sequences, FiniteSets, TLC

VARIABLES
    \* ---- GoogleDriveAPI instance and its environment
    accessToken,        \* this.accessToken: NoToken or a bearer token
    backupFolderId,     \* this.backupFolderId: NoId or a folder id
    gapiLoaded,         \* the global gapi object exists and is initialised
    providerSignedIn,   \* gapi.auth2.getAuthInstance().isSignedIn.get()
    driveFolders,       \* remote: ids of the non-trashed backup folders
    driveFiles,         \* remote: entries of the folder, modifiedTime desc
    driveNextId,        \* remote: next id the store assigns
    lastCall,           \* record of the last GoogleDriveAPI call
    uploadRun,          \* history: the calls so far are same-name uploads
    \* ---- FileManager and the OPFS root directory
    store,              \* OPFS root: name -> entry
    now,                \* the clock that stamps lastModified
    backupJson,         \* the last string createBackup returned
    backupOrigin,       \* history: what createBackup listed and read
    fileCall,           \* record of the last FileManager call
    \* ---- validateBackupFile
    candidate,          \* the File handed to validateBackupFile
    validation,         \* what validateBackupFile returned for it
    \* ---- promises that have not settled
    pending,            \* the GoogleDriveAPI data calls in flight, by caller
    settled,            \* history: the callers in the order their calls settled
    signInPc,           \* the await a signIn call in flight has reached
    \* ---- the GoogleDriveBackup component
    panel               \* its state hooks and its handlers in flight

driveVars == <<accessToken, backupFolderId, gapiLoaded, providerSignedIn,
               driveFolders, driveFiles, driveNextId, lastCall, uploadRun>>
fileVars == <<store, now, backupJson, backupOrigin, fileCall>>
validateVars == <<candidate, validation>>
asyncVars == <<pending, settled, signInPc, panel>>
vars == <<driveVars, fileVars, validateVars, asyncVars>>

(***************************************************************************)
(* Bounds of the model.                                                    *)
(***************************************************************************)
MaxDriveObjects == 3
MaxItems == 3
MaxClock == 1
MaxCandidateItems == 6

(***************************************************************************)
(* Sequence helpers.                                                       *)
(***************************************************************************)
RECURSIVE SeqsUpTo(_, _)
SeqsUpTo(S, n) ==
    IF n = 0 THEN {<<>>}
    ELSE LET shorter == SeqsUpTo(S, n - 1)
         IN  shorter \cup {Append(s, x) : s \in {t \in shorter : Len(t) = n - 1}, x \in S}

(***************************************************************************)
(*                     G o o g l e D r i v e A P I                         *)
(***************************************************************************)
NoToken == "null"
Token == "access_token"
NoId == 0

\* File names handed to uploadBackup.  syncBackupToGoogleDrive derives
\* daily-takings-backup-<date>.json; uploadBackup itself takes any name.
BackupNames == {"daily-takings-backup-2025-01-15.json", "archive.json"}
BackupContents == {"backup-a", "backup-b"}

\* The listing query of listBackups: name contains 'daily-takings-backup'.
NameContainsBackupPrefix(name) == name \in {"daily-takings-backup-2025-01-15.json"}

DataOps == {"listBackups", "uploadBackup", "downloadBackup", "deleteBackup", "getBackupInfo"}

NotAuthenticatedMessage == "Not authenticated with Google Drive"

\* A client that skips the token check (sensitivity of C2).
HasAccessTokenUnchecked(token) == TRUE

\* if (!this.accessToken) throw new Error('Not authenticated with Google Drive')
HasAccessToken(token) == token # NoToken

\* The callers whose calls can be in flight together: the Drive panel and
\* downloadAndSyncBackup.
Callers == {"panel", "downloadAndSync"}

NoPending ==
    [pc |-> "idle", op |-> "none", fileName |-> "", data |-> "", folderId |-> NoId,
     existing |-> NoId, cachedAtStart |-> FALSE, queried |-> FALSE, value |-> NoId,
     bearer |-> NoToken]

\* The handlers of the GoogleDriveBackup component that await a FileManager
\* call.
Handlers == {"handleConnect", "handleDisconnect", "handleSyncBackup", "handleShowBackups",
             "handleRestoreFromDrive", "handleDeleteFromDrive"}

\* A handler that is not running; a running one holds the call it awaits,
\* its fileId argument and the showBackups value of the render it closed over.
NotRunning == [awaits |-> "none", fileId |-> NoId, showBackups |-> FALSE]

\* The useState initial values of the component.
NoPanel ==
    [isConnected |-> FALSE, loading |-> FALSE, syncLoading |-> FALSE,
     driveBackups |-> <<>>, showBackups |-> FALSE, error |-> "null",
     running |-> [h \in Handlers |-> NotRunning]]

InitAsyncVars ==
    /\ pending = [c \in Callers |-> NoPending]
    /\ settled = <<>>
    /\ signInPc = "idle"
    /\ panel = NoPanel

NoCall ==
    [op |-> "none", hadToken |-> FALSE, fileName |-> "", fileId |-> NoId,
     requests |-> <<>>, outcome |-> "none", value |-> "", list |-> <<>>,
     error |-> "", prompted |-> FALSE, failed |-> FALSE, status |-> ""]

Call(op, fileName, fileId, requests, outcome, value, list, error) ==
    [op |-> op, hadToken |-> accessToken # NoToken, fileName |-> fileName,
     fileId |-> fileId, requests |-> requests, outcome |-> outcome,
     value |-> value, list |-> list, error |-> error, prompted |-> FALSE,
     failed |-> FALSE, status |-> ""]

Returns(op, fileName, fileId, requests, value, list) ==
    Call(op, fileName, fileId, requests, "returns", value, list, "")

Throws(op, fileName, fileId, requests, error) ==
    Call(op, fileName, fileId, requests, "throws", "", <<>>, error)

\* findOrCreateBackupFolder as a function of the instance and the store:
\* the folder id (NoId when it throws), the store's folders afterwards and
\* the requests it issued.
findOrCreateBackupFolder(cached, folders, nextId, failList, failCreate) ==
    IF cached # NoId
    THEN [ok |-> TRUE, id |-> cached, folders |-> folders, nextId |-> nextId,
          requests |-> <<>>]
    ELSE IF failList
    THEN [ok |-> FALSE, id |-> NoId, folders |-> folders, nextId |-> nextId,
          requests |-> <<"drive.files.list(folder)">>]
    ELSE IF Len(folders) > 0
    THEN [ok |-> TRUE, id |-> folders[1], folders |-> folders, nextId |-> nextId,
          requests |-> <<"drive.files.list(folder)">>]
    ELSE IF failCreate
    THEN [ok |-> FALSE, id |-> NoId, folders |-> folders, nextId |-> nextId,
          requests |-> <<"drive.files.list(folder)", "drive.files.create(folder)">>]
    ELSE [ok |-> TRUE, id |-> nextId, folders |-> Append(folders, nextId),
          nextId |-> nextId + 1,
          requests |-> <<"drive.files.list(folder)", "drive.files.create(folder)">>]

\* The answer of the store to the query of listBackups for one folder.
QueryBackups(files, folderId) ==
    LET Matches(f) == f.parent = folderId /\ NameContainsBackupPrefix(f.name)
    IN  SelectSeq(files, Matches)

\* listBackups as a function: what it returns, and what it did on the way.
listBackupsResult(token, cached, folders, files, nextId, failFolderList, failFolderCreate, failList) ==
    IF ~HasAccessToken(token)
    THEN [files |-> <<>>, failed |-> TRUE, id |-> cached, folders |-> folders,
          nextId |-> nextId, requests |-> <<>>]
    ELSE LET folder == findOrCreateBackupFolder(cached, folders, nextId,
                                                failFolderList, failFolderCreate)
         IN  IF ~folder.ok
             THEN [files |-> <<>>, failed |-> TRUE, id |-> cached, folders |-> folder.folders,
                   nextId |-> folder.nextId, requests |-> folder.requests]
             ELSE IF failList
             THEN [files |-> <<>>, failed |-> TRUE, id |-> folder.id,
                   folders |-> folder.folders, nextId |-> folder.nextId,
                   requests |-> Append(folder.requests, "drive.files.list(backups)")]
             ELSE [files |-> QueryBackups(files, folder.id), failed |-> FALSE,
                   id |-> folder.id, folders |-> folder.folders, nextId |-> folder.nextId,
                   requests |-> Append(folder.requests, "drive.files.list(backups)")]

\* The entries of `files` with the entry of id `id` left out.
WithoutId(files, id) ==
    LET Other(f) == f.id # id
    IN  SelectSeq(files, Other)

HasId(files, id) == \E i \in 1..Len(files) : files[i].id = id

EntryOfId(files, id) == files[CHOOSE i \in 1..Len(files) : files[i].id = id]

\* existingFiles.find(file => file.name === fileName): the first such entry.
FindByName(listing, fileName) ==
    LET Same(f) == f.name = fileName
    IN  SelectSeq(listing, Same)

\* The status of a response with !response.ok: the store rejects the
\* bearer token (401) or fails otherwise.
FailureStatuses == {"401", "500"}

\* if (!response.ok) throw new Error(...): the status is not looked at.
Rejected(call, status) == [call EXCEPT !.status = status]

\* Which requests of a call the transport or the store fails.
UploadFailures == [folderList : BOOLEAN, folderCreate : BOOLEAN, list : BOOLEAN, request : BOOLEAN]
ListFailures == [folderList : BOOLEAN, folderCreate : BOOLEAN, list : BOOLEAN]

\* Every call other than a successful upload of the run's name ends the run.
EndRun == uploadRun' = [pure |-> FALSE, name |-> uploadRun.name]

\* What a GoogleDriveAPI call leaves alone, and the bound on the store's ids.
DriveFrame ==
    /\ driveNextId' <= MaxDriveObjects + 1
    /\ UNCHANGED <<fileVars, validateVars, asyncVars>>

FileFrame == UNCHANGED <<driveVars, validateVars, asyncVars>>

uploadBackupCall(backupData, fileName, fail) ==
    LET op == "uploadBackup"
           failure == "Failed to upload backup to Google Drive"
           folder == findOrCreateBackupFolder(backupFolderId, driveFolders, driveNextId,
                                              fail.folderList, fail.folderCreate)
           listing == listBackupsResult(accessToken, folder.id, folder.folders, driveFiles,
                                        folder.nextId, fail.folderList, fail.folderCreate,
                                        fail.list)
           existing == FindByName(listing.files, fileName)
           method == IF existing # <<>> THEN "PATCH upload/drive/v3/files/id"
                                        ELSE "POST upload/drive/v3/files"
           requests == folder.requests \o listing.requests \o <<method>>
       IN  IF ~HasAccessToken(accessToken)
           THEN /\ lastCall' = Throws(op, fileName, NoId, <<>>, failure)
                /\ EndRun
                /\ UNCHANGED <<accessToken, backupFolderId, gapiLoaded, providerSignedIn,
                               driveFolders, driveFiles, driveNextId>>
           ELSE IF ~folder.ok
           THEN /\ lastCall' = Throws(op, fileName, NoId, folder.requests, failure)
                /\ EndRun
                /\ UNCHANGED <<accessToken, backupFolderId, gapiLoaded, providerSignedIn,
                               driveFolders, driveFiles, driveNextId>>
           ELSE IF fail.request
           THEN /\ \E status \in FailureStatuses :
                     lastCall' = Rejected(Throws(op, fileName, NoId, requests, failure), status)
                /\ backupFolderId' = folder.id
                /\ driveFolders' = folder.folders
                /\ driveNextId' = folder.nextId
                /\ EndRun
                /\ UNCHANGED <<accessToken, gapiLoaded, providerSignedIn, driveFiles>>
           ELSE LET id == IF existing # <<>> THEN existing[1].id ELSE folder.nextId
                    entry == [id |-> id, name |-> fileName, parent |-> folder.id,
                              content |-> backupData]
                IN  /\ lastCall' = Returns(op, fileName, id, requests, "id", <<>>)
                    /\ backupFolderId' = folder.id
                    /\ driveFolders' = folder.folders
                    /\ driveFiles' = <<entry>> \o WithoutId(driveFiles, id)
                    /\ driveNextId' = IF existing # <<>> THEN folder.nextId ELSE folder.nextId + 1
                    /\ uploadRun' = IF uploadRun.name \in {"", fileName}
                                    THEN [pure |-> uploadRun.pure, name |-> fileName]
                                    ELSE [pure |-> FALSE, name |-> uploadRun.name]
                    /\ UNCHANGED <<accessToken, gapiLoaded, providerSignedIn>>

uploadBackup(backupData, fileName, fail) ==
    /\ uploadBackupCall(backupData, fileName, fail)
    /\ DriveFrame

listBackupsCall(fail) ==
    LET listing == listBackupsResult(accessToken, backupFolderId, driveFolders, driveFiles,
                                     driveNextId, fail.folderList, fail.folderCreate,
                                     fail.list)
    IN  /\ lastCall' = [Returns("listBackups", "", NoId, listing.requests,
                                IF listing.files = <<>> THEN "[]" ELSE "files",
                                listing.files)
                           EXCEPT !.failed = listing.failed]
        /\ backupFolderId' = listing.id
        /\ driveFolders' = listing.folders
        /\ driveNextId' = listing.nextId
        /\ EndRun
        /\ UNCHANGED <<accessToken, gapiLoaded, providerSignedIn, driveFiles>>

listBackups(fail) ==
    /\ listBackupsCall(fail)
    /\ DriveFrame

downloadBackupCall(fileId, failRequest) ==
    LET op == "downloadBackup"
           failure == "Failed to download backup from Google Drive"
           request == <<"GET drive/v3/files/id?alt=media">>
       IN  /\ \E status \in FailureStatuses :
                lastCall' =
                  IF ~HasAccessToken(accessToken) THEN Throws(op, "", fileId, <<>>, failure)
                  ELSE IF failRequest
                  THEN Rejected(Throws(op, "", fileId, request, failure), status)
                  ELSE IF ~HasId(driveFiles, fileId)
                  THEN Rejected(Throws(op, "", fileId, request, failure), "404")
                  ELSE Returns(op, "", fileId, request, "content",
                               <<[content |-> EntryOfId(driveFiles, fileId).content]>>)
           /\ EndRun
           /\ UNCHANGED <<accessToken, backupFolderId, gapiLoaded, providerSignedIn,
                          driveFolders, driveFiles, driveNextId>>

downloadBackup(fileId, failRequest) ==
    /\ downloadBackupCall(fileId, failRequest)
    /\ DriveFrame

\* The store answers a delete with a status; the call returns status === 200.
DeleteStatuses == {"200", "204"}

deleteBackupCall(fileId, failRequest, status) ==
       LET op == "deleteBackup"
           request == <<"drive.files.delete">>
           removed == HasAccessToken(accessToken) /\ ~failRequest /\ HasId(driveFiles, fileId)
       IN  /\ lastCall' =
                 IF ~HasAccessToken(accessToken) THEN Returns(op, "", fileId, <<>>, "false", <<>>)
                 ELSE IF ~removed THEN Returns(op, "", fileId, request, "false", <<>>)
                 ELSE Returns(op, "", fileId, request,
                              IF status = "200" THEN "true" ELSE "false", <<>>)
           /\ driveFiles' = IF removed THEN WithoutId(driveFiles, fileId) ELSE driveFiles
           /\ EndRun
           /\ UNCHANGED <<accessToken, backupFolderId, gapiLoaded, providerSignedIn,
                          driveFolders, driveNextId>>

deleteBackup(fileId, failRequest, status) ==
    /\ deleteBackupCall(fileId, failRequest, status)
    /\ DriveFrame

getBackupInfo(fileId, failRequest) ==
    /\ LET op == "getBackupInfo"
           request == <<"drive.files.get">>
       IN  /\ lastCall' =
                 IF ~HasAccessToken(accessToken) THEN Returns(op, "", fileId, <<>>, "null", <<>>)
                 ELSE IF failRequest \/ ~HasId(driveFiles, fileId)
                 THEN Returns(op, "", fileId, request, "null", <<>>)
                 ELSE Returns(op, "", fileId, request, "entry", <<EntryOfId(driveFiles, fileId)>>)
           /\ EndRun
           /\ UNCHANGED <<accessToken, backupFolderId, gapiLoaded, providerSignedIn,
                          driveFolders, driveFiles, driveNextId>>
    /\ DriveFrame

PromptOutcomes == {"granted", "denied", "timeout"}

\* 'Sign-in timeout - popup may have been blocked' contains 'popup'.
BlockedMessage == "Sign-in popup was blocked. Please allow popups for this site and try again."

\* A signIn that never finds the session signed in (sensitivity of C16).
SessionNeverSignedIn(session) == FALSE

\* if (authInstance.isSignedIn.get())
AuthInstanceIsSignedIn(session) == session

signInCall(initOk, prompt) ==
    LET op == "signIn"
           Prompted(call) == [call EXCEPT !.prompted = TRUE]
       IN  IF ~initOk
           THEN /\ lastCall' = Throws(op, "", NoId, <<>>, "Sign-in failed: initialize")
                /\ UNCHANGED <<accessToken, backupFolderId, gapiLoaded, providerSignedIn,
                               driveFolders, driveFiles, driveNextId, uploadRun>>
           ELSE IF AuthInstanceIsSignedIn(providerSignedIn)
           THEN /\ lastCall' = Returns(op, "", NoId, <<>>, "true", <<>>)
                /\ accessToken' = Token
                /\ gapiLoaded' = TRUE
                /\ UNCHANGED <<backupFolderId, providerSignedIn, driveFolders, driveFiles,
                               driveNextId, uploadRun>>
           ELSE IF prompt = "granted"
           THEN /\ lastCall' = Prompted(Returns(op, "", NoId, <<>>, "true", <<>>))
                /\ accessToken' = Token
                /\ gapiLoaded' = TRUE
                /\ providerSignedIn' = TRUE
                /\ UNCHANGED <<backupFolderId, driveFolders, driveFiles, driveNextId, uploadRun>>
           ELSE /\ lastCall' = Prompted(Throws(op, "", NoId, <<>>,
                                   IF prompt = "timeout"
                                   THEN BlockedMessage
                                   ELSE "Sign-in failed: denied"))
                /\ gapiLoaded' = TRUE
                /\ UNCHANGED <<accessToken, backupFolderId, providerSignedIn, driveFolders,
                               driveFiles, driveNextId, uploadRun>>

signIn(initOk, prompt) ==
    /\ signInCall(initOk, prompt)
    /\ DriveFrame

signOutCall(failProvider) ==
    /\ lastCall' = Returns("signOut", "", NoId, <<>>, "undefined", <<>>)
    /\ IF gapiLoaded /\ ~failProvider
       THEN /\ providerSignedIn' = FALSE
            /\ accessToken' = NoToken
            /\ backupFolderId' = NoId
       ELSE UNCHANGED <<providerSignedIn, accessToken, backupFolderId>>
    /\ EndRun
    /\ UNCHANGED <<gapiLoaded, driveFolders, driveFiles, driveNextId>>

signOut(failProvider) ==
    /\ signOutCall(failProvider)
    /\ DriveFrame

\* GoogleDriveAPI.isSignedIn(): what the provider's auth instance reports,
\* false when gapi is not there (catch).
isSignedIn == gapiLoaded /\ providerSignedIn

\* The consent popup of a signIn that lost the race against its 30 s
\* timer stays open: Promise.race does not cancel authInstance.signIn().
\* The user answers it afterwards and the provider session is signed in,
\* while the signIn call that would have stored the token has thrown.
consentAnsweredLate ==
    /\ lastCall.op = "signIn"
    /\ lastCall.error = BlockedMessage
    /\ ~providerSignedIn
    /\ providerSignedIn' = TRUE
    /\ UNCHANGED <<accessToken, backupFolderId, gapiLoaded, driveFolders, driveFiles,
                   driveNextId, lastCall, uploadRun>>
    /\ DriveFrame

\* A page load constructs a new GoogleDriveAPI; the provider session lives on.
newGoogleDriveAPI ==
    /\ accessToken' = NoToken
    /\ backupFolderId' = NoId
    /\ gapiLoaded' = FALSE
    /\ lastCall' = NoCall
    /\ EndRun
    /\ UNCHANGED <<providerSignedIn, driveFolders, driveFiles, driveNextId>>
    /\ DriveFrame

(***************************************************************************)
(* SpecDrive: one GoogleDriveAPI instance against an empty remote store.   *)
(***************************************************************************)
InitDriveVars ==
    /\ accessToken = NoToken
    /\ backupFolderId = NoId
    /\ gapiLoaded = FALSE
    /\ providerSignedIn = FALSE
    /\ driveFolders = <<>>
    /\ driveFiles = <<>>
    /\ driveNextId = 1
    /\ lastCall = NoCall
    /\ uploadRun = [pure |-> TRUE, name |-> ""]
    /\ InitAsyncVars

DriveIds == 1..MaxDriveObjects

NextDrive ==
    \/ \E data \in BackupContents, name \in BackupNames, fail \in UploadFailures :
         uploadBackup(data, name, fail)
    \/ \E fail \in ListFailures : listBackups(fail)
    \/ \E id \in DriveIds, failRequest \in BOOLEAN : downloadBackup(id, failRequest)
    \/ \E id \in DriveIds, failRequest \in BOOLEAN, status \in DeleteStatuses :
         deleteBackup(id, failRequest, status)
    \/ \E id \in DriveIds, failRequest \in BOOLEAN : getBackupInfo(id, failRequest)
    \/ \E initOk \in BOOLEAN, prompt \in PromptOutcomes : signIn(initOk, prompt)
    \/ \E failProvider \in BOOLEAN : signOut(failProvider)
    \/ newGoogleDriveAPI

(***************************************************************************)
(*                          F i l e M a n a g e r                          *)
(***************************************************************************)
\* Names of OPFS entries.  listSalesFiles keeps a file entry iff
\* name.startsWith('sales_') && name.endsWith('.json').
DatedSalesNames == {"sales_2025-01-15.json", "sales_2025-01-16.json"}
SalesNames == DatedSalesNames \cup {"sales_old.json"}
FileNames == SalesNames \cup {"notes.txt"}

StartsWithSalesAndEndsWithJson(name) == name \in SalesNames

\* name.match(/sales_(\d{4}-\d{2}-\d{2})\.json/), else 'Unknown'.
DateOfName(name) ==
    IF name = "sales_2025-01-15.json" THEN "2025-01-15"
    ELSE IF name = "sales_2025-01-16.json" THEN "2025-01-16"
    ELSE "Unknown"

\* JavaScript values a salesData field takes after JSON.parse.  "undefined"
\* is the absent field, "Infinity" the number an overflowing literal such as
\* 1e999 parses to, the summaries stand for SalesSummary objects.
Summaries == {"summary-A", "summary-B"}

\* A SalesSummary whose totals.total is not cash + card + digital, and the
\* JSON objects that have the shape of a SalesSummary.
UnbalancedSummary == "summary-unbalanced"
SalesSummaryObjects == Summaries \cup {UnbalancedSummary}
Undefined == "undefined"

\* JSON.parse on one literal, JSON.stringify on one value.
JSONparse(literal) == IF literal = "1e999" THEN "Infinity" ELSE literal
JSONstringify(value) == IF value = "Infinity" THEN "null" ELSE value

\* !x in JavaScript, for the values above.
Falsy(value) == value \in {Undefined, "null", ""}

Absent == -1    \* an absent numeric field (timestamp, fileCount, lastModified)

NoEntry == [exists |-> FALSE, content |-> "", lastModified |-> 0]
EmptyStore == [name \in FileNames |-> NoEntry]

\* readSalesFile: the parsed content, or null when the handle, the read or
\* JSON.parse throws (the empty string does not parse).
readSalesFile(st, fileName, failRead) ==
    IF failRead \/ ~st[fileName].exists \/ st[fileName].content = "" THEN "null"
    ELSE JSONparse(st[fileName].content)

\* The directory order in which root.entries() yields the names.
DirectoryOrder ==
    <<"notes.txt", "sales_2025-01-15.json", "sales_2025-01-16.json", "sales_old.json">>

\* files.sort((a, b) => b.lastModified - a.lastModified): stable insertion
\* into a sequence sorted by lastModified descending.
RECURSIVE SortByLastModifiedDesc(_)
SortByLastModifiedDesc(files) ==
    IF files = <<>> THEN <<>>
    ELSE LET rest == SortByLastModifiedDesc(Tail(files))
             f == Head(files)
             Newer(g) == g.lastModified > f.lastModified
             NotNewer(g) == ~Newer(g)
         IN  SelectSeq(rest, Newer) \o <<f>> \o SelectSeq(rest, NotNewer)

\* The scan as it would be if a failure kept the entries pushed before it.
listSalesFilesPartial(st, failList) ==
    LET IsSalesFile(name) == st[name].exists /\ StartsWithSalesAndEndsWithJson(name)
        names == SelectSeq(DirectoryOrder, IsSalesFile)
        files == [i \in 1..Len(names) |->
                     [name |-> names[i], date |-> DateOfName(names[i]),
                      lastModified |-> st[names[i]].lastModified]]
    IN  IF failList THEN SelectSeq(files, LAMBDA f : f.name = names[1])
        ELSE SortByLastModifiedDesc(files)

\* The whole scan is inside one try block whose catch returns [].
listSalesFiles(st, failList) ==
    IF failList THEN <<>>
    ELSE LET IsSalesFile(name) == st[name].exists /\ StartsWithSalesAndEndsWithJson(name)
             names == SelectSeq(DirectoryOrder, IsSalesFile)
             files == [i \in 1..Len(names) |->
                          [name |-> names[i], date |-> DateOfName(names[i]),
                           lastModified |-> st[names[i]].lastModified]]
         IN  SortByLastModifiedDesc(files)

\* A File handed to restoreFromBackup or validateBackupFile, by its text:
\* text that does not parse, the text "null", or an object with the fields.
GarbageFile ==
    [parses |-> FALSE, isNull |-> FALSE, timestamp |-> Absent, version |-> Undefined,
     fileCount |-> Absent, dataKind |-> Undefined, data |-> <<>>]
NullFile == [GarbageFile EXCEPT !.parses = TRUE, !.isNull = TRUE]
ObjectFile(timestamp, version, fileCount, dataKind, data) ==
    [parses |-> TRUE, isNull |-> FALSE, timestamp |-> timestamp, version |-> version,
     fileCount |-> fileCount, dataKind |-> dataKind, data |-> data]

NullItem ==
    [isNull |-> TRUE, fileName |-> Undefined, date |-> Undefined,
     lastModified |-> Absent, salesData |-> Undefined]
Item(fileName, salesData) ==
    [isNull |-> FALSE, fileName |-> fileName, date |-> Undefined,
     lastModified |-> Absent, salesData |-> salesData]

\* JSON.parse / JSON.stringify on the items of a payload.
ParseItems(items) ==
    [i \in 1..Len(items) |-> [items[i] EXCEPT !.salesData = JSONparse(@)]]
StringifyItems(items) ==
    [i \in 1..Len(items) |-> [items[i] EXCEPT !.salesData = JSONstringify(@)]]

\* A createBackup that pushes every listed file, read or not (sensitivity
\* of C7).
RECURSIVE BackupItemsUnfiltered(_, _, _)
BackupItemsUnfiltered(st, files, failReads) ==
    IF files = <<>> THEN <<>>
    ELSE LET file == Head(files)
         IN  <<[isNull |-> FALSE, fileName |-> file.name, date |-> file.date,
                lastModified |-> file.lastModified,
                salesData |-> readSalesFile(st, file.name, file.name \in failReads)]>>
             \o BackupItemsUnfiltered(st, Tail(files), failReads)

\* createBackup: list, read each file, keep the truthy ones, stringify.
RECURSIVE BackupItems(_, _, _)
BackupItems(st, files, failReads) ==
    IF files = <<>> THEN <<>>
    ELSE LET file == Head(files)
             salesData == readSalesFile(st, file.name, file.name \in failReads)
             rest == BackupItems(st, Tail(files), failReads)
         IN  IF ~Falsy(salesData)
             THEN <<[isNull |-> FALSE, fileName |-> file.name, date |-> file.date,
                     lastModified |-> file.lastModified, salesData |-> salesData]>> \o rest
             ELSE rest

createBackupResult(st, time, failList, failReads) ==
    LET files == listSalesFiles(st, failList)
    IN  ObjectFile(time, "1.0", Len(files), "array",
                   StringifyItems(BackupItems(st, files, failReads)))

\* One record write of restoreFromBackup (lines 242-246) and where it can
\* fail: before the entry exists (getRoot, getFileHandle) or after
\* getFileHandle(create: true) made it (createWritable, write, close); the
\* writable replaces the content only when close() succeeds.
WriteStages == {"none", "getFileHandle", "close"}

\* A write that creates the entry but never commits its content
\* (sensitivity of C8).
WriteRecordNoClose(st, fileName, salesData, time, failStage) ==
    IF failStage = "getFileHandle" \/ st[fileName].exists THEN st
    ELSE [st EXCEPT ![fileName] = [exists |-> TRUE, content |-> "", lastModified |-> time]]

WriteRecord(st, fileName, salesData, time, failStage) ==
    IF failStage = "getFileHandle" THEN st
    ELSE IF failStage = "close"
    THEN IF st[fileName].exists THEN st
         ELSE [st EXCEPT ![fileName] = [exists |-> TRUE, content |-> "", lastModified |-> time]]
    ELSE [st EXCEPT ![fileName] = [exists |-> TRUE, content |-> JSONstringify(salesData),
                                   lastModified |-> time]]

NoResults == [success |-> 0, failed |-> 0, errors |-> <<>>]

\* The for loop of restoreFromBackup from item i on.  `log` records what
\* happened to each item; raised is TRUE when the loop was left by a throw.
RECURSIVE RestoreLoop(_, _, _, _, _, _, _)
RestoreLoop(items, i, st, results, log, time, failStages) ==
    IF i > Len(items)
    THEN [raised |-> FALSE, results |-> results, store |-> st, log |-> log]
    ELSE LET item == items[i]
             Logged(what) == Append(log, [item |-> item, what |-> what])
         IN  IF item.isNull
             \* item.fileName throws a TypeError; the catch block evaluates
             \* item.fileName again and throws out of the loop.
             THEN [raised |-> TRUE, results |-> [results EXCEPT !.failed = @ + 1],
                   store |-> st, log |-> Logged("threw")]
             ELSE IF Falsy(item.fileName) \/ Falsy(item.salesData)
             THEN RestoreLoop(items, i + 1, st,
                      [results EXCEPT !.failed = @ + 1,
                                      !.errors = Append(@, [message |-> "Invalid data structure for file",
                                                            file |-> IF Falsy(item.fileName) THEN "unknown"
                                                                     ELSE item.fileName])],
                      Logged("invalid"), time, failStages)
             ELSE IF failStages[i] # "none"
             THEN RestoreLoop(items, i + 1,
                      WriteRecord(st, item.fileName, item.salesData, time, failStages[i]),
                      [results EXCEPT !.failed = @ + 1,
                                      !.errors = Append(@, [message |-> "Failed to restore",
                                                            file |-> item.fileName])],
                      Logged("failed"), time, failStages)
             ELSE RestoreLoop(items, i + 1,
                      WriteRecord(st, item.fileName, item.salesData, time, "none"),
                      [results EXCEPT !.success = @ + 1],
                      Logged("written"), time, failStages)

\* restoreFromBackup as a function of the file, the store and the failures
\* of the storage: what it returns or throws and the store afterwards.
restoreFromBackupResult(file, st, time, failStages) ==
    IF ~file.parses
    THEN [outcome |-> "throws", error |-> "Failed to restore backup: SyntaxError",
          results |-> NoResults, store |-> st, log |-> <<>>]
    ELSE IF file.isNull
    THEN [outcome |-> "throws", error |-> "Failed to restore backup: TypeError",
          results |-> NoResults, store |-> st, log |-> <<>>]
    ELSE IF file.dataKind # "array"
    THEN [outcome |-> "throws",
          error |-> "Failed to restore backup: Error: Invalid backup file format",
          results |-> NoResults, store |-> st, log |-> <<>>]
    ELSE LET loop == RestoreLoop(ParseItems(file.data), 1, st, NoResults, <<>>, time,
                                 failStages)
         IN  IF loop.raised
             THEN [outcome |-> "throws", error |-> "Failed to restore backup: TypeError",
                   results |-> NoResults, store |-> loop.store, log |-> loop.log]
             ELSE [outcome |-> "returns", error |-> "", results |-> loop.results,
                   store |-> loop.store, log |-> loop.log]

NoFileCall ==
    [op |-> "none", file |-> GarbageFile, fileName |-> "", outcome |-> "none",
     error |-> "", results |-> NoResults, log |-> <<>>, failStages |-> <<>>,
     changed |-> FALSE, list |-> <<>>, failed |-> FALSE]

\* The positions of the items restoreFromBackup tries to write.
WritePositions(file) ==
    {i \in 1..Len(file.data) :
        /\ ~file.data[i].isNull
        /\ ~Falsy(file.data[i].fileName)
        /\ ~Falsy(JSONparse(file.data[i].salesData))}

restoreFromBackup(file, failStages) ==
    /\ LET r == restoreFromBackupResult(file, store, now, failStages)
       IN  /\ store' = r.store
           /\ fileCall' = [op |-> "restoreFromBackup", file |-> file, fileName |-> "",
                           outcome |-> r.outcome, error |-> r.error, results |-> r.results,
                           log |-> r.log, failStages |-> failStages,
                           changed |-> r.store # store, list |-> <<>>, failed |-> FALSE]
           /\ UNCHANGED <<now, backupJson, backupOrigin>>
    /\ FileFrame

\* deleteSalesFile: removeEntry throws for a name that is not there.
deleteSalesFile(fileName, failRemove) ==
    /\ LET removed == store[fileName].exists /\ ~failRemove
       IN  /\ store' = IF removed THEN [store EXCEPT ![fileName] = NoEntry] ELSE store
           /\ fileCall' = [NoFileCall EXCEPT !.op = "deleteSalesFile", !.fileName = fileName,
                                             !.outcome = "returns",
                                             !.error = IF removed THEN "true" ELSE "false",
                                             !.changed = removed]
           /\ UNCHANGED <<now, backupJson, backupOrigin>>
    /\ FileFrame

createBackup(failList, failReads) ==
    /\ backupJson' = <<createBackupResult(store, now, failList, failReads)>>
    /\ backupOrigin' = [store |-> store, failList |-> failList, failReads |-> failReads]
    /\ fileCall' = [NoFileCall EXCEPT !.op = "createBackup", !.outcome = "returns"]
    /\ UNCHANGED <<store, now>>
    /\ FileFrame

NoBackupOrigin == [store |-> EmptyStore, failList |-> FALSE, failReads |-> {}]

(***************************************************************************)
(* SpecFiles: restoreFromBackup on the files a user can pick, against an   *)
(* OPFS directory that starts empty.                                       *)
(***************************************************************************)
\* The items of the picked files: null, well-formed, a field missing, a
\* number that overflows, a repeated name, a name outside the pattern.
RestoreItems ==
    { NullItem,
      Item("sales_2025-01-15.json", "summary-A"),
      Item("sales_2025-01-15.json", "summary-B"),
      Item("sales_2025-01-16.json", "summary-A"),
      Item("sales_2025-01-16.json", "1e999"),
      Item("sales_2025-01-16.json", UnbalancedSummary),
      Item("sales_2025-01-15.json", Undefined),
      Item(Undefined, "summary-A"),
      Item("notes.txt", "summary-B") }

RestoreFiles ==
    {GarbageFile, NullFile,
     ObjectFile(1, "1.0", Absent, Undefined, <<>>),
     ObjectFile(1, "1.0", Absent, "number", <<>>)}
    \cup {ObjectFile(1, "1.0", Len(data), "array", data) : data \in SeqsUpTo(RestoreItems, MaxItems)}

InitFileVars ==
    /\ store = EmptyStore
    /\ now = 0
    /\ backupJson = <<>>
    /\ backupOrigin = NoBackupOrigin
    /\ fileCall = NoFileCall

NoValidation ==
    [called |-> FALSE, valid |-> FALSE, fileCount |-> Absent, timestamp |-> Absent,
     errors |-> <<>>]

InitValidateVars ==
    /\ candidate = GarbageFile
    /\ validation = NoValidation

\* Record stores a restore starts from: each sales record absent, written
\* by an earlier restore, or left empty by a restore whose write failed.
Written(content) == [exists |-> TRUE, content |-> content, lastModified |-> 0]
StoresBeforeRestore ==
    {[EmptyStore EXCEPT !["sales_2025-01-15.json"] = e1, !["sales_2025-01-16.json"] = e2] :
        e1 \in {NoEntry, Written("summary-B"), Written("")},
        e2 \in {NoEntry, Written("summary-A")}}

InitFiles ==
    /\ InitDriveVars
    /\ store \in StoresBeforeRestore
    /\ now \in 0..MaxClock
    /\ backupJson = <<>>
    /\ backupOrigin = NoBackupOrigin
    /\ fileCall = NoFileCall
    /\ candidate \in RestoreFiles
    /\ validation = NoValidation

\* One behaviour is one restore of the picked file on one of the stores
\* above.
restorePickedFile ==
    /\ fileCall.op = "none"
    /\ \E failStages \in [WritePositions(candidate) -> WriteStages] :
         restoreFromBackup(candidate, failStages)

NextFiles == restorePickedFile

SpecFiles == InitFiles /\ [][NextFiles]_vars

InitDrive == InitDriveVars /\ InitFileVars /\ InitValidateVars

SpecDrive == InitDrive /\ [][NextDrive]_vars

(***************************************************************************)
(* SpecBackup: createBackup on a populated record store, and the restore   *)
(* of the file it produced.                                                *)
(***************************************************************************)
StoredEntries(name) ==
    {NoEntry} \cup
    {[exists |-> TRUE, content |-> content, lastModified |-> time] :
        content \in (IF name \in DatedSalesNames THEN {"", "null"} \cup Summaries
                     ELSE IF name = "notes.txt" THEN {"summary-B"}
                     ELSE {}),
        time \in 0..MaxClock}

InitBackup ==
    /\ InitDriveVars
    /\ InitValidateVars
    /\ store \in {st \in [FileNames -> UNION {StoredEntries(name) : name \in FileNames}] :
                     \A name \in FileNames : st[name] \in StoredEntries(name)}
    /\ now = MaxClock
    /\ backupJson = <<>>
    /\ backupOrigin = NoBackupOrigin
    /\ fileCall = NoFileCall

restoreBackupFile ==
    /\ backupJson # <<>>
    /\ \E failStages \in [WritePositions(backupJson[1]) -> WriteStages] :
         restoreFromBackup(backupJson[1], failStages)

\* One behaviour follows one backup file.
createBackupFile ==
    /\ backupJson = <<>>
    /\ \E failList \in BOOLEAN, failReads \in SUBSET DatedSalesNames :
         createBackup(failList, failReads)

NextBackup ==
    \/ createBackupFile
    \/ restoreBackupFile
    \/ \E name \in FileNames, failRemove \in BOOLEAN : deleteSalesFile(name, failRemove)

SpecBackup == InitBackup /\ [][NextBackup]_vars

(***************************************************************************)
(* SpecList: listSalesFiles on a directory that holds any of the entries,  *)
(* each with its own modification time.                                    *)
(***************************************************************************)
ListedEntries ==
    {NoEntry} \cup
    {[exists |-> TRUE, content |-> "summary-A", lastModified |-> time] : time \in 0..MaxClock}

InitList ==
    /\ InitDriveVars
    /\ InitValidateVars
    /\ store \in [FileNames -> ListedEntries]
    /\ now = MaxClock
    /\ backupJson = <<>>
    /\ backupOrigin = NoBackupOrigin
    /\ fileCall = NoFileCall

\* listSalesFiles called on its own (the file list of the page).
listSalesFilesCall(failList) ==
    /\ fileCall' = [NoFileCall EXCEPT !.op = "listSalesFiles", !.outcome = "returns",
                                      !.list = listSalesFiles(store, failList),
                                      !.failed = failList]
    /\ UNCHANGED <<store, now, backupJson, backupOrigin>>
    /\ FileFrame

NextList == \E failList \in BOOLEAN : listSalesFilesCall(failList)

SpecList == InitList /\ [][NextList]_vars

(***************************************************************************)
(*        F i l e M a n a g e r :   G o o g l e   D r i v e                *)
(* The model is of a deployment whose client id and API key are set, so    *)
(* initializeGoogleDriveAPI returns the one GoogleDriveAPI instance.       *)
(***************************************************************************)
NotConnectedMessage == "Not connected to Google Drive"

\* `daily-takings-backup-${timestamp}.json` for the date of the session.
SyncFileName == "daily-takings-backup-2025-01-15.json"

OrchestratorFrame ==
    /\ driveNextId' <= MaxDriveObjects + 1
    /\ UNCHANGED <<validateVars, asyncVars>>

\* A FileManager call that threw before it did anything.
ThrowsEarly(op, message) ==
    /\ fileCall' = [NoFileCall EXCEPT !.op = op, !.outcome = "throws", !.error = message]
    /\ UNCHANGED <<store, now, backupJson, backupOrigin, driveVars>>

connectToGoogleDriveCall(initOk, prompt) ==
    /\ signInCall(initOk, prompt)
    /\ fileCall' = IF lastCall'.outcome = "returns"
                   THEN [NoFileCall EXCEPT !.op = "connectToGoogleDrive", !.outcome = "returns"]
                   ELSE [NoFileCall EXCEPT !.op = "connectToGoogleDrive", !.outcome = "throws",
                                           !.error = "Failed to connect to Google Drive"]
    /\ UNCHANGED <<store, now, backupJson, backupOrigin>>

disconnectFromGoogleDriveCall(failProvider) ==
    /\ signOutCall(failProvider)
    /\ fileCall' = [NoFileCall EXCEPT !.op = "disconnectFromGoogleDrive", !.outcome = "returns"]
    /\ UNCHANGED <<store, now, backupJson, backupOrigin>>

syncBackupToGoogleDriveCall(failList, failReads, fail) ==
    LET op == "syncBackupToGoogleDrive"
    IN  /\ IF ~isSignedIn
           THEN ThrowsEarly(op, NotConnectedMessage)
           ELSE /\ backupJson' = <<createBackupResult(store, now, failList, failReads)>>
                /\ backupOrigin' = [store |-> store, failList |-> failList,
                                    failReads |-> failReads]
                /\ uploadBackupCall(backupJson'[1], SyncFileName, fail)
                /\ fileCall' =
                     IF lastCall'.outcome = "returns"
                     THEN [NoFileCall EXCEPT !.op = op, !.outcome = "returns",
                                             !.fileName = SyncFileName]
                     ELSE [NoFileCall EXCEPT !.op = op, !.outcome = "throws",
                                             !.error = "Failed to sync backup to Google Drive"]
                /\ UNCHANGED <<store, now>>

listGoogleDriveBackupsCall(fail) ==
    LET op == "listGoogleDriveBackups"
    IN  /\ IF ~isSignedIn
           THEN ThrowsEarly(op, NotConnectedMessage)
           ELSE /\ listBackupsCall(fail)
                /\ fileCall' = [NoFileCall EXCEPT !.op = op, !.outcome = "returns"]
                /\ UNCHANGED <<store, now, backupJson, backupOrigin>>

restoreFromGoogleDriveBackupCall(fileId, failRequest) ==
    LET op == "restoreFromGoogleDriveBackup"
        failure == "Failed to restore from Google Drive backup"
    IN  /\ IF ~isSignedIn
           THEN ThrowsEarly(op, NotConnectedMessage)
           ELSE /\ downloadBackupCall(fileId, failRequest)
                /\ IF lastCall'.outcome = "throws"
                   THEN /\ fileCall' = [NoFileCall EXCEPT !.op = op, !.outcome = "throws",
                                                          !.error = failure]
                        /\ UNCHANGED store
                   ELSE LET tempFile == lastCall'.list[1].content
                        IN  \E failStages \in [WritePositions(tempFile) -> WriteStages] :
                              LET r == restoreFromBackupResult(tempFile, store, now, failStages)
                              IN  /\ store' = r.store
                                  /\ fileCall' =
                                       [NoFileCall EXCEPT
                                          !.op = op, !.file = tempFile,
                                          !.outcome = r.outcome,
                                          !.error = IF r.outcome = "throws" THEN failure ELSE "",
                                          !.results = r.results, !.log = r.log,
                                          !.failStages = failStages,
                                          !.changed = r.store # store]
                /\ UNCHANGED <<now, backupJson, backupOrigin>>

\* deleteGoogleDriveBackup returns what deleteBackup returned.
deleteGoogleDriveBackupCall(fileId, failRequest, status) ==
    LET op == "deleteGoogleDriveBackup"
    IN  IF ~isSignedIn
        THEN ThrowsEarly(op, NotConnectedMessage)
        ELSE /\ deleteBackupCall(fileId, failRequest, status)
             /\ fileCall' = [NoFileCall EXCEPT !.op = op, !.outcome = "returns",
                                               !.failed = lastCall'.value # "true"]
             /\ UNCHANGED <<store, now, backupJson, backupOrigin>>

\* The calls as FileManager's caller sees them, one per step.
connectToGoogleDrive(initOk, prompt) ==
    /\ connectToGoogleDriveCall(initOk, prompt)
    /\ OrchestratorFrame

disconnectFromGoogleDrive(failProvider) ==
    /\ disconnectFromGoogleDriveCall(failProvider)
    /\ OrchestratorFrame

syncBackupToGoogleDrive(failList, failReads, fail) ==
    /\ syncBackupToGoogleDriveCall(failList, failReads, fail)
    /\ OrchestratorFrame

listGoogleDriveBackups(fail) ==
    /\ listGoogleDriveBackupsCall(fail)
    /\ OrchestratorFrame

restoreFromGoogleDriveBackup(fileId, failRequest) ==
    /\ restoreFromGoogleDriveBackupCall(fileId, failRequest)
    /\ OrchestratorFrame

(***************************************************************************)
(* SpecSync: the Google Drive operations of FileManager, on a page whose   *)
(* OPFS directory is empty or holds one record.                            *)
(***************************************************************************)
InitSync ==
    /\ InitDriveVars
    /\ InitValidateVars
    /\ store \in {EmptyStore,
                  [EmptyStore EXCEPT !["sales_2025-01-15.json"] = Written("summary-A")]}
    /\ now = 0
    /\ backupJson = <<>>
    /\ backupOrigin = NoBackupOrigin
    /\ fileCall = NoFileCall

NextSync ==
    \/ \E initOk \in BOOLEAN, prompt \in PromptOutcomes : connectToGoogleDrive(initOk, prompt)
    \/ \E failProvider \in BOOLEAN : disconnectFromGoogleDrive(failProvider)
    \/ consentAnsweredLate
    \/ \E failList \in BOOLEAN, failReads \in SUBSET {"sales_2025-01-15.json"},
          fail \in UploadFailures :
         syncBackupToGoogleDrive(failList, failReads, fail)
    \/ \E fail \in ListFailures : listGoogleDriveBackups(fail)
    \/ \E id \in DriveIds, failRequest \in BOOLEAN : restoreFromGoogleDriveBackup(id, failRequest)
    \/ \E failList \in BOOLEAN : listSalesFilesCall(failList)

SpecSync == InitSync /\ [][NextSync]_vars

(***************************************************************************)
(*          G o o g l e D r i v e A P I :   c a l l s   i n   f l i g h t  *)
(* uploadBackup and listBackups one await at a time.  A step is the moment *)
(* the store answers a request together with the code that runs until the  *)
(* next request is issued.  Nothing in GoogleDriveAPI or FileManager holds *)
(* a second call back while a first one is in flight; the panel disables   *)
(* its sync button with syncLoading and its listing with loading, two      *)
(* separate flags.                                                         *)
(***************************************************************************)
RaceFrame ==
    /\ driveNextId' <= MaxDriveObjects + 1
    /\ UNCHANGED <<accessToken, gapiLoaded, providerSignedIn, lastCall, uploadRun,
                   fileVars, validateVars, signInPc, panel>>

\* The call runs to its first await: the token check, then the cache check
\* of findOrCreateBackupFolder, then the folder query is issued.
startCall(c, op, data, fileName) ==
    /\ pending[c].pc = "idle"
    /\ HasAccessToken(accessToken)
    /\ pending' = [pending EXCEPT ![c] =
                     [NoPending EXCEPT
                        !.op = op, !.data = data, !.fileName = fileName,
                        !.cachedAtStart = backupFolderId # NoId,
                        !.folderId = backupFolderId,
                        !.pc = IF backupFolderId # NoId THEN "listFiles" ELSE "findFolder"]]
    /\ UNCHANGED <<backupFolderId, driveFolders, driveFiles, driveNextId, settled>>
    /\ RaceFrame

\* drive.files.list for the folder answers; files[0] is cached, or the
\* create request is issued.
folderListed(c) ==
    /\ pending[c].pc = "findFolder"
    /\ IF Len(driveFolders) > 0
       THEN /\ backupFolderId' = driveFolders[1]
            /\ pending' = [pending EXCEPT ![c].pc = "listFiles", ![c].queried = TRUE,
                                          ![c].folderId = driveFolders[1]]
       ELSE /\ pending' = [pending EXCEPT ![c].pc = "createFolder", ![c].queried = TRUE]
            /\ UNCHANGED backupFolderId
    /\ UNCHANGED <<driveFolders, driveFiles, driveNextId, settled>>
    /\ RaceFrame

\* drive.files.create for the folder answers.
folderCreated(c) ==
    /\ pending[c].pc = "createFolder"
    /\ driveFolders' = Append(driveFolders, driveNextId)
    /\ driveNextId' = driveNextId + 1
    /\ backupFolderId' = driveNextId
    /\ pending' = [pending EXCEPT ![c].pc = "listFiles", ![c].folderId = driveNextId]
    /\ UNCHANGED <<driveFiles, settled>>
    /\ RaceFrame

\* drive.files.list of listBackups answers: listBackups settles, or
\* uploadBackup picks existingFile and issues its PATCH or POST.
filesListed(c) ==
    /\ pending[c].pc = "listFiles"
    /\ LET listing == QueryBackups(driveFiles, backupFolderId)
           existing == FindByName(listing, pending[c].fileName)
       IN  IF pending[c].op = "listBackups"
           THEN /\ pending' = [pending EXCEPT ![c].pc = "settled"]
                /\ settled' = Append(settled, c)
           ELSE /\ pending' = [pending EXCEPT
                                 ![c].pc = "fetch",
                                 ![c].bearer = accessToken,
                                 ![c].existing = IF existing # <<>> THEN existing[1].id
                                                 ELSE NoId]
                /\ UNCHANGED settled
    /\ UNCHANGED <<backupFolderId, driveFolders, driveFiles, driveNextId>>
    /\ RaceFrame

\* The PATCH or POST answers and uploadBackup returns result.id; a request
\* sent as `Bearer null` after a sign-out is rejected and the call throws.
uploaded(c) ==
    /\ pending[c].pc = "fetch"
    /\ IF ~HasAccessToken(pending[c].bearer)
       THEN /\ pending' = [pending EXCEPT ![c].pc = "settled"]
            /\ UNCHANGED <<driveFiles, driveNextId>>
       ELSE LET id == IF pending[c].existing # NoId THEN pending[c].existing
                      ELSE driveNextId
                entry == [id |-> id, name |-> pending[c].fileName,
                          parent |-> pending[c].folderId, content |-> pending[c].data]
            IN  /\ driveFiles' = <<entry>> \o WithoutId(driveFiles, id)
                /\ driveNextId' = IF pending[c].existing # NoId THEN driveNextId
                                  ELSE driveNextId + 1
                /\ pending' = [pending EXCEPT ![c].pc = "settled", ![c].value = id]
    /\ settled' = Append(settled, c)
    /\ UNCHANGED <<backupFolderId, driveFolders>>
    /\ RaceFrame

(***************************************************************************)
(* SpecRace: a signed-in session, the remote store empty or holding the    *)
(* folder (with or without the backup of the day); each caller makes one   *)
(* call.                                                                   *)
(***************************************************************************)
InitRace ==
    /\ accessToken = Token
    /\ gapiLoaded = TRUE
    /\ providerSignedIn = TRUE
    /\ lastCall = NoCall
    /\ uploadRun = [pure |-> FALSE, name |-> ""]
    /\ \/ /\ backupFolderId = NoId
          /\ driveFolders = <<>>
          /\ driveFiles = <<>>
          /\ driveNextId = 1
       \/ /\ backupFolderId \in {NoId, 1}
          /\ driveFolders = <<1>>
          /\ driveFiles \in {<<>>, <<[id |-> 2, name |-> SyncFileName, parent |-> 1,
                                      content |-> "backup-a"]>>}
          /\ driveNextId = IF driveFiles = <<>> THEN 2 ELSE 3
    /\ InitAsyncVars
    /\ InitFileVars
    /\ InitValidateVars

NextRace ==
    \/ \E c \in Callers, data \in BackupContents : startCall(c, "uploadBackup", data, SyncFileName)
    \/ \E c \in Callers : startCall(c, "listBackups", "", "")
    \/ \E c \in Callers : folderListed(c)
    \/ \E c \in Callers : folderCreated(c)
    \/ \E c \in Callers : filesListed(c)
    \/ \E c \in Callers : uploaded(c)
    \/ \E failProvider \in BOOLEAN : signOut(failProvider)

SpecRace == InitRace /\ [][NextRace]_vars

(***************************************************************************)
(*        G o o g l e D r i v e A P I :   s i g n I n   i n   f l i g h t  *)
(* signIn one await at a time.  signInPc is the await the call has         *)
(* reached: the load of the api.js script, gapi.load('auth2:client', cb),  *)
(* gapi.client.init, the consent prompt raced against the 30 s timer.      *)
(***************************************************************************)
SignInFrame ==
    UNCHANGED <<backupFolderId, driveFolders, driveFiles, driveNextId, uploadRun,
                fileVars, validateVars, pending, settled, panel>>

SignInSettled == {"idle", "returned", "threw"}

InitializeFailed == Throws("signIn", "", NoId, <<>>, "Sign-in failed: initialize")

\* signIn() is called: initialize() appends the script element, or calls
\* gapi.load when gapi is already there.
startSignIn ==
    /\ signInPc \in SignInSettled
    /\ signInPc' = IF gapiLoaded THEN "loadAuth2" ELSE "loadScript"
    /\ UNCHANGED <<accessToken, gapiLoaded, providerSignedIn, lastCall>>
    /\ SignInFrame

\* script.onload
scriptLoaded ==
    /\ signInPc = "loadScript"
    /\ signInPc' = "loadAuth2"
    /\ UNCHANGED <<accessToken, gapiLoaded, providerSignedIn, lastCall>>
    /\ SignInFrame

\* script.onerror rejects; signIn rethrows.
scriptFailed ==
    /\ signInPc = "loadScript"
    /\ signInPc' = "threw"
    /\ lastCall' = InitializeFailed
    /\ UNCHANGED <<accessToken, gapiLoaded, providerSignedIn>>
    /\ SignInFrame

\* After initialize() resolved: the session is signed in and the token is
\* taken from it, or authInstance.signIn opens the consent prompt.
AfterInitialize ==
    /\ gapiLoaded' = TRUE
    /\ IF AuthInstanceIsSignedIn(providerSignedIn)
       THEN /\ signInPc' = "returned"
            /\ accessToken' = Token
            /\ lastCall' = Returns("signIn", "", NoId, <<>>, "true", <<>>)
       ELSE /\ signInPc' = "prompt"
            /\ UNCHANGED <<accessToken, lastCall>>
    /\ UNCHANGED providerSignedIn

\* The callback handed to gapi.load runs: it awaits gapi.client.init, or
\* resolves at once when gapi.client.getToken() is set.
auth2Loaded ==
    /\ signInPc = "loadAuth2"
    /\ IF gapiLoaded /\ accessToken # NoToken
       THEN AfterInitialize
       ELSE /\ signInPc' = "clientInit"
            /\ UNCHANGED <<accessToken, gapiLoaded, providerSignedIn, lastCall>>
    /\ SignInFrame

\* The auth2 or client module does not load.  gapi.load was given a bare
\* callback, no onerror, no timeout and no ontimeout: nothing is called and
\* the promise of initialize() is neither resolved nor rejected.
auth2LoadFailed ==
    /\ signInPc = "loadAuth2"
    /\ signInPc' = "loadAuth2Failed"
    /\ UNCHANGED <<accessToken, gapiLoaded, providerSignedIn, lastCall>>
    /\ SignInFrame

clientInitDone ==
    /\ signInPc = "clientInit"
    /\ AfterInitialize
    /\ SignInFrame

clientInitFailed ==
    /\ signInPc = "clientInit"
    /\ signInPc' = "threw"
    /\ lastCall' = InitializeFailed
    /\ UNCHANGED <<accessToken, gapiLoaded, providerSignedIn>>
    /\ SignInFrame

\* Promise.race([signInPromise, timeoutPromise]) settles.
promptSettled(prompt) ==
    /\ signInPc = "prompt"
    /\ IF prompt = "granted"
       THEN /\ signInPc' = "returned"
            /\ accessToken' = Token
            /\ providerSignedIn' = TRUE
            /\ lastCall' = [Returns("signIn", "", NoId, <<>>, "true", <<>>)
                               EXCEPT !.prompted = TRUE]
       ELSE /\ signInPc' = "threw"
            /\ lastCall' = [Throws("signIn", "", NoId, <<>>,
                                   IF prompt = "timeout" THEN BlockedMessage
                                   ELSE "Sign-in failed: denied")
                               EXCEPT !.prompted = TRUE]
            /\ UNCHANGED <<accessToken, providerSignedIn>>
    /\ UNCHANGED gapiLoaded
    /\ SignInFrame

ScriptSettles == scriptLoaded \/ scriptFailed
Auth2Settles == auth2Loaded \/ auth2LoadFailed
ClientInitSettles == clientInitDone \/ clientInitFailed
PromptSettles == \E prompt \in PromptOutcomes : promptSettled(prompt)

signOutWhileIdle(failProvider) ==
    /\ signInPc \in SignInSettled
    /\ signOut(failProvider)

(***************************************************************************)
(* SpecSignIn: signIn calls one after the other on a fresh page.  The      *)
(* browser answers every load (onload or onerror), the provider answers    *)
(* client.init, and the timer of the race fires: each await of signIn is   *)
(* given weak fairness.                                                    *)
(***************************************************************************)
InitSignIn == InitDriveVars /\ InitFileVars /\ InitValidateVars

NextSignIn ==
    \/ startSignIn
    \/ scriptLoaded
    \/ scriptFailed
    \/ auth2Loaded
    \/ auth2LoadFailed
    \/ clientInitDone
    \/ clientInitFailed
    \/ \E prompt \in PromptOutcomes : promptSettled(prompt)
    \/ consentAnsweredLate
    \/ \E failProvider \in BOOLEAN : signOutWhileIdle(failProvider)

SpecSignIn ==
    /\ InitSignIn
    /\ [][NextSignIn]_vars
    /\ WF_vars(ScriptSettles)
    /\ WF_vars(Auth2Settles)
    /\ WF_vars(ClientInitSettles)
    /\ WF_vars(PromptSettles)

(***************************************************************************)
(*                    v a l i d a t e B a c k u p F i l e                  *)
(***************************************************************************)
PreviewLimit == 5    \* Math.min(data.data.length, 5)

Min(a, b) == IF a < b THEN a ELSE b

Error(message, item) == [message |-> message, item |-> item]

\* The two checks of the loop body for item i (1-based in the messages).
ItemErrors(item, i) ==
    (IF Falsy(item.fileName) THEN <<Error("Missing fileName", i)>> ELSE <<>>)
    \o (IF Falsy(item.salesData) THEN <<Error("Missing salesData", i)>> ELSE <<>>)

\* The loop over the first items; threw is TRUE when an item is null and
\* item.fileName throws a TypeError.
RECURSIVE PreviewLoop(_, _, _)
PreviewLoop(items, i, errors) ==
    IF i > Min(Len(items), PreviewLimit) THEN [threw |-> FALSE, errors |-> errors]
    ELSE IF items[i].isNull THEN [threw |-> TRUE, errors |-> errors]
    ELSE PreviewLoop(items, i + 1, errors \o ItemErrors(items[i], i))

\* A validateBackupFile whose catch block rethrows: the caller gets no
\* result (sensitivity of C11).
InvalidJSONRethrown ==
    [called |-> FALSE, valid |-> FALSE, fileCount |-> Absent, timestamp |-> Absent,
     errors |-> <<Error("SyntaxError", 0)>>]

InvalidJSON ==
    [called |-> TRUE, valid |-> FALSE, fileCount |-> Absent, timestamp |-> Absent,
     errors |-> <<Error("Invalid JSON format or corrupted file", 0)>>]

\* validateBackupFile as a function of the file.  A string as data has a
\* length and characters, so the loop runs over it too; a number has none.
validateBackupFileResult(file) ==
    IF ~file.parses \/ file.isNull THEN InvalidJSON
    ELSE LET header ==
                 (IF file.timestamp = Absent THEN <<Error("Missing timestamp", 0)>> ELSE <<>>)
                 \o (IF file.version = Undefined THEN <<Error("Missing version", 0)>> ELSE <<>>)
                 \o (IF file.dataKind # "array"
                     THEN <<Error("Missing or invalid data array", 0)>> ELSE <<>>)
             loop == IF file.dataKind \in {"array", "string"}
                     THEN PreviewLoop(ParseItems(file.data), 1, header)
                     ELSE [threw |-> FALSE, errors |-> header]
         IN  IF loop.threw THEN InvalidJSON
             ELSE [called |-> TRUE, valid |-> loop.errors = <<>>,
                   fileCount |-> IF file.fileCount \notin {Absent, 0} THEN file.fileCount
                                 ELSE IF file.dataKind \in {"array", "string"}
                                 THEN Len(file.data) ELSE Absent,
                   timestamp |-> file.timestamp, errors |-> loop.errors]

validateBackupFile ==
    /\ validation' = validateBackupFileResult(candidate)
    /\ UNCHANGED <<candidate, driveVars, fileVars, asyncVars>>

(***************************************************************************)
(* SpecValidate: validateBackupFile on the files a user can pick.          *)
(***************************************************************************)
CandidateItems ==
    { NullItem,
      Item("sales_2025-01-15.json", "summary-A"),
      Item("sales_2025-01-15.json", Undefined),
      Item(Undefined, "summary-A"),
      Item(Undefined, Undefined) }

\* The characters of a string found where the data array should be.
Character == Item(Undefined, Undefined)

CandidateFiles ==
    {GarbageFile, NullFile}
    \cup {ObjectFile(timestamp, version, fileCount, dataKind, <<>>) :
            timestamp \in {Absent, 1}, version \in {Undefined, "1.0"},
            fileCount \in {Absent, 2}, dataKind \in {Undefined, "number"}}
    \cup {ObjectFile(timestamp, version, Absent, "string", <<Character, Character>>) :
            timestamp \in {Absent, 1}, version \in {Undefined, "1.0"}}
    \cup {ObjectFile(timestamp, version, fileCount, "array", data) :
            timestamp \in {Absent, 1}, version \in {Undefined, "1.0"},
            fileCount \in {Absent, 2}, data \in SeqsUpTo(CandidateItems, 2)}
    \cup {ObjectFile(1, "1.0", Len(data), "array", data) :
            data \in SeqsUpTo(CandidateItems, MaxCandidateItems)}

\* A session that signed in and uploaded one backup, on a page whose OPFS
\* directory holds one record written by an earlier restore.
InitConnected ==
    /\ accessToken = Token
    /\ backupFolderId = 1
    /\ gapiLoaded = TRUE
    /\ providerSignedIn = TRUE
    /\ driveFolders = <<1>>
    /\ driveFiles = <<[id |-> 2, name |-> "daily-takings-backup-2025-01-15.json",
                       parent |-> 1, content |-> "backup-a"]>>
    /\ driveNextId = 3
    /\ lastCall = Returns("uploadBackup", "daily-takings-backup-2025-01-15.json", 2,
                          <<"drive.files.list(folder)", "drive.files.create(folder)",
                            "drive.files.list(backups)", "POST upload/drive/v3/files">>,
                          "id", <<>>)
    /\ uploadRun = [pure |-> TRUE, name |-> "daily-takings-backup-2025-01-15.json"]
    /\ InitAsyncVars
    /\ store = [EmptyStore EXCEPT !["sales_2025-01-15.json"] = Written("summary-A")]
    /\ now = 0
    /\ backupJson = <<>>
    /\ backupOrigin = NoBackupOrigin
    /\ fileCall = NoFileCall

\* validateBackupFile is called on a fresh page or in the session above.
InitValidate ==
    /\ (InitDriveVars /\ InitFileVars) \/ InitConnected
    /\ candidate \in CandidateFiles
    /\ validation = NoValidation

NextValidate == validateBackupFile

SpecValidate == InitValidate /\ [][NextValidate]_vars

(***************************************************************************)
(*              T h e   t w o   r e s t o r e   h a n d l e r s            *)
(***************************************************************************)
\* BackupManager.handleBackupRestore on the picked file: validate, stop on
\* an invalid file, ask, restore.
handleBackupRestore(confirmed) ==
    /\ validation' = validateBackupFileResult(candidate)
    /\ IF validation'.valid /\ confirmed
       THEN \E failStages \in [WritePositions(candidate) -> WriteStages] :
              LET r == restoreFromBackupResult(candidate, store, now, failStages)
              IN  /\ store' = r.store
                  /\ fileCall' = [NoFileCall EXCEPT
                                    !.op = "restoreFromBackup", !.file = candidate,
                                    !.outcome = r.outcome, !.error = r.error,
                                    !.results = r.results, !.log = r.log,
                                    !.failStages = failStages,
                                    !.changed = r.store # store]
       ELSE UNCHANGED <<store, fileCall>>
    /\ UNCHANGED <<now, backupJson, backupOrigin, candidate, driveVars, asyncVars>>

\* GoogleDriveBackup.handleRestoreFromDrive run to its end: ask
\* (if (!confirm(...)) return), setLoading(true), setError(null),
\* restoreFromGoogleDriveBackup, setError on a throw, setLoading(false);
\* validateBackupFile is not called.
handleRestoreFromDrive(fileId, confirmed, failRequest) ==
    /\ confirmed
    /\ restoreFromGoogleDriveBackupCall(fileId, failRequest)
    /\ panel' = [panel EXCEPT !.error = IF fileCall'.outcome = "throws"
                                        THEN fileCall'.error ELSE "null"]
    /\ driveNextId' <= MaxDriveObjects + 1
    /\ UNCHANGED <<validateVars, pending, settled, signInPc>>

(***************************************************************************)
(* SpecRestore: a signed-in session whose container holds one backup, and  *)
(* a file the user picked; the backup and the file are well-formed or lack *)
(* a header field or an item field.                                        *)
(***************************************************************************)
RestorableFiles ==
    {ObjectFile(1, version, 1, "array", <<Item("sales_2025-01-15.json", salesData)>>) :
        version \in {Undefined, "1.0"}, salesData \in {"summary-A", "summary-B"}}

PickedFiles ==
    RestorableFiles
    \cup {GarbageFile, ObjectFile(1, "1.0", 1, "array", <<Item(Undefined, "summary-A")>>)}

InitRestore ==
    /\ accessToken = Token
    /\ backupFolderId = 1
    /\ gapiLoaded = TRUE
    /\ providerSignedIn = TRUE
    /\ driveFolders = <<1>>
    /\ \E content \in RestorableFiles :
         driveFiles = <<[id |-> 2, name |-> SyncFileName, parent |-> 1, content |-> content]>>
    /\ driveNextId = 3
    /\ lastCall = NoCall
    /\ uploadRun = [pure |-> FALSE, name |-> ""]
    /\ InitAsyncVars
    /\ InitFileVars
    /\ candidate \in PickedFiles
    /\ validation = NoValidation

NextRestore ==
    \/ \E confirmed \in BOOLEAN : handleBackupRestore(confirmed)
    \/ \E id \in DriveIds, confirmed \in BOOLEAN, failRequest \in BOOLEAN :
         handleRestoreFromDrive(id, confirmed, failRequest)

SpecRestore == InitRestore /\ [][NextRestore]_vars

(***************************************************************************)
(*        T h e   G o o g l e D r i v e B a c k u p   c o m p o n e n t    *)
(*                                                                         *)
(* A handler runs in two steps: the click, which runs it to its await, and *)
(* the step in which the awaited FileManager call settles and the handler  *)
(* runs on to its next await or to its end.  A button can be clicked when  *)
(* it is rendered and not disabled.  At most one run of each handler is    *)
(* followed at a time.                                                     *)
(***************************************************************************)
Running(h) == panel.running[h].awaits # "none"

Awaiting(h, op) ==
    [panel EXCEPT !.running[h] = [awaits |-> op, fileId |-> NoId,
                                  showBackups |-> panel.showBackups]]

AwaitingFor(h, op, fileId) ==
    [panel EXCEPT !.running[h] = [awaits |-> op, fileId |-> fileId,
                                  showBackups |-> panel.showBackups]]

Ended(p, h) == [p EXCEPT !.running[h] = NotRunning]

\* A click runs no FileManager call.
Clicked ==
    UNCHANGED <<driveVars, fileVars, validateVars, pending, settled, signInPc>>

PanelFrame ==
    /\ driveNextId' <= MaxDriveObjects + 1
    /\ UNCHANGED <<validateVars, pending, settled, signInPc>>

\* The message handleConnect shows for a caught error: the one that
\* includes 'popup' is replaced; none of the messages thrown here includes
\* 'timeout', 'not configured' or an OAuth origin complaint.
ConnectErrorMessage(message) ==
    IF message = BlockedMessage
    THEN "Please allow popups for this site and try again."
    ELSE message

\* Rows of the backup list: showBackups, not loading, a non-empty list.
RowRendered(fileId) ==
    /\ panel.isConnected
    /\ panel.showBackups
    /\ ~panel.loading
    /\ HasId(panel.driveBackups, fileId)

connectClicked ==
    /\ ~panel.isConnected
    /\ ~panel.loading
    /\ ~Running("handleConnect")
    /\ panel' = [Awaiting("handleConnect", "connectToGoogleDrive")
                    EXCEPT !.loading = TRUE, !.error = "null"]
    /\ Clicked

connectSettled(initOk, prompt) ==
    /\ panel.running["handleConnect"].awaits = "connectToGoogleDrive"
    /\ connectToGoogleDriveCall(initOk, prompt)
    /\ panel' = Ended(IF fileCall'.outcome = "returns"
                      THEN [panel EXCEPT !.isConnected = TRUE, !.loading = FALSE]
                      ELSE [panel EXCEPT !.error = ConnectErrorMessage(fileCall'.error),
                                         !.loading = FALSE],
                      "handleConnect")
    /\ PanelFrame

disconnectClicked ==
    /\ panel.isConnected
    /\ ~panel.loading
    /\ ~Running("handleDisconnect")
    /\ panel' = [Awaiting("handleDisconnect", "disconnectFromGoogleDrive")
                    EXCEPT !.loading = TRUE]
    /\ Clicked

disconnectSettled(failProvider) ==
    /\ panel.running["handleDisconnect"].awaits = "disconnectFromGoogleDrive"
    /\ disconnectFromGoogleDriveCall(failProvider)
    /\ panel' = Ended([panel EXCEPT !.isConnected = FALSE, !.driveBackups = <<>>,
                                    !.showBackups = FALSE, !.loading = FALSE],
                      "handleDisconnect")
    /\ PanelFrame

syncClicked ==
    /\ panel.isConnected
    /\ ~panel.syncLoading
    /\ ~Running("handleSyncBackup")
    /\ panel' = [Awaiting("handleSyncBackup", "syncBackupToGoogleDrive")
                    EXCEPT !.syncLoading = TRUE, !.error = "null"]
    /\ Clicked

\* syncBackupToGoogleDrive settles; after a success the handler goes on to
\* loadDriveBackups when the render it closed over showed the list.
syncSettled(fail) ==
    LET h == "handleSyncBackup"
    IN  /\ panel.running[h].awaits = "syncBackupToGoogleDrive"
        /\ syncBackupToGoogleDriveCall(FALSE, {}, fail)
        /\ panel' =
             IF fileCall'.outcome = "throws"
             THEN Ended([panel EXCEPT !.error = fileCall'.error, !.syncLoading = FALSE], h)
             ELSE IF panel.running[h].showBackups
             THEN [panel EXCEPT !.loading = TRUE, !.error = "null",
                                !.running[h].awaits = "listGoogleDriveBackups"]
             ELSE Ended([panel EXCEPT !.syncLoading = FALSE], h)
        /\ PanelFrame

showBackupsClicked ==
    LET h == "handleShowBackups"
    IN  /\ panel.isConnected
        /\ ~panel.loading
        /\ ~Running(h)
        /\ panel' = IF ~panel.showBackups
                    THEN [Awaiting(h, "listGoogleDriveBackups")
                             EXCEPT !.loading = TRUE, !.error = "null"]
                    ELSE [panel EXCEPT !.showBackups = FALSE]
        /\ Clicked

\* listGoogleDriveBackups settles in loadDriveBackups, whose finally runs,
\* and the handler that awaited loadDriveBackups runs to its end.
listSettled(h, fail) ==
    /\ h \in {"handleSyncBackup", "handleShowBackups"}
    /\ panel.running[h].awaits = "listGoogleDriveBackups"
    /\ listGoogleDriveBackupsCall(fail)
    /\ LET loaded == IF fileCall'.outcome = "returns"
                     THEN [panel EXCEPT !.driveBackups = lastCall'.list, !.loading = FALSE]
                     ELSE [panel EXCEPT !.error = "Failed to load Google Drive backups",
                                        !.loading = FALSE]
       IN  panel' = Ended(IF h = "handleSyncBackup"
                          THEN [loaded EXCEPT !.syncLoading = FALSE]
                          ELSE [loaded EXCEPT !.showBackups = ~panel.running[h].showBackups],
                          h)
    /\ PanelFrame

\* The row's restore button, the confirm dialog answered with OK.
restoreClicked(fileId) ==
    LET h == "handleRestoreFromDrive"
    IN  /\ RowRendered(fileId)
        /\ ~Running(h)
        /\ panel' = [AwaitingFor(h, "restoreFromGoogleDriveBackup", fileId)
                        EXCEPT !.loading = TRUE, !.error = "null"]
        /\ Clicked

restoreSettled(failRequest) ==
    LET h == "handleRestoreFromDrive"
    IN  /\ panel.running[h].awaits = "restoreFromGoogleDriveBackup"
        /\ restoreFromGoogleDriveBackupCall(panel.running[h].fileId, failRequest)
        /\ panel' = Ended(IF fileCall'.outcome = "throws"
                          THEN [panel EXCEPT !.error = fileCall'.error, !.loading = FALSE]
                          ELSE [panel EXCEPT !.loading = FALSE],
                          h)
        /\ PanelFrame

\* The row's delete button, the confirm dialog answered with OK.
deleteClicked(fileId) ==
    LET h == "handleDeleteFromDrive"
    IN  /\ RowRendered(fileId)
        /\ ~Running(h)
        /\ panel' = [AwaitingFor(h, "deleteGoogleDriveBackup", fileId)
                        EXCEPT !.loading = TRUE, !.error = "null"]
        /\ Clicked

deleteSettled(failRequest, status) ==
    LET h == "handleDeleteFromDrive"
        fileId == panel.running[h].fileId
    IN  /\ panel.running[h].awaits = "deleteGoogleDriveBackup"
        /\ deleteGoogleDriveBackupCall(fileId, failRequest, status)
        /\ panel' =
             Ended(IF fileCall'.outcome = "throws"
                   THEN [panel EXCEPT !.error = fileCall'.error, !.loading = FALSE]
                   ELSE IF fileCall'.failed
                   THEN [panel EXCEPT !.error = "Failed to delete backup from Google Drive",
                                      !.loading = FALSE]
                   ELSE [panel EXCEPT !.driveBackups = WithoutId(@, fileId),
                                      !.loading = FALSE],
                   h)
        /\ PanelFrame

(***************************************************************************)
(* SpecPanel: the component mounted on a signed-in session whose container *)
(* holds one backup; checkConnection has run.                              *)
(***************************************************************************)
\* The failures drawn here: of the sign-in, of the upload request and of
\* the download request; the other requests fail only for want of a session.
PanelUploadFailures ==
    {fail \in UploadFailures : ~fail.folderList /\ ~fail.folderCreate /\ ~fail.list}

PanelListFailures ==
    {fail \in ListFailures : ~fail.folderList /\ ~fail.folderCreate /\ ~fail.list}

InitPanel ==
    /\ accessToken = Token
    /\ backupFolderId = 1
    /\ gapiLoaded = TRUE
    /\ providerSignedIn = TRUE
    /\ driveFolders = <<1>>
    /\ driveFiles = <<[id |-> 2, name |-> SyncFileName, parent |-> 1,
                       content |-> ObjectFile(1, "1.0", 1, "array",
                                      <<Item("sales_2025-01-15.json", "summary-A")>>)]>>
    /\ driveNextId = 3
    /\ lastCall = NoCall
    /\ uploadRun = [pure |-> FALSE, name |-> ""]
    /\ pending = [c \in Callers |-> NoPending]
    /\ settled = <<>>
    /\ signInPc = "idle"
    /\ panel = [NoPanel EXCEPT !.isConnected = isSignedIn]
    /\ InitFileVars
    /\ InitValidateVars

NextPanel ==
    \/ connectClicked
    \/ \E initOk \in BOOLEAN, prompt \in PromptOutcomes : connectSettled(initOk, prompt)
    \/ disconnectClicked
    \/ disconnectSettled(FALSE)
    \/ syncClicked
    \/ \E fail \in PanelUploadFailures : syncSettled(fail)
    \/ showBackupsClicked
    \/ \E h \in Handlers, fail \in PanelListFailures : listSettled(h, fail)
    \/ \E id \in DriveIds : restoreClicked(id)
    \/ \E failRequest \in BOOLEAN : restoreSettled(failRequest)
    \/ \E id \in DriveIds : deleteClicked(id)
    \/ \E status \in DeleteStatuses : deleteSettled(FALSE, status)

SpecPanel == InitPanel /\ [][NextPanel]_vars

(***************************************************************************)
(*                              C l a i m s                                *)
(***************************************************************************)
NamedEntries(name) == {i \in 1..Len(driveFiles) : driveFiles[i].name = name}

\* C1 (SpecDrive): from an empty container on a signed-in client, after any
\* run of uploadBackup calls that all returned and all had the same
\* fileName, the container holds exactly one entry, of that name: later
\* calls update it and the listing does not grow.
C1_SameNameUploadsKeepOneEntry ==
    (uploadRun.pure /\ uploadRun.name # "") =>
        /\ Len(driveFiles) = 1
        /\ Cardinality(NamedEntries(uploadRun.name)) = 1

UnauthenticatedDataCall == lastCall.op \in DataOps /\ ~lastCall.hadToken

\* C2 (SpecDrive): a data operation called while the client holds no
\* access token issues no request to the remote store.
C2_NoRequestWithoutToken ==
    UnauthenticatedDataCall => lastCall.requests = <<>>

\* C2 witness: uploadBackup was called without a token on a fresh instance
\* while the provider session is live and the container holds a backup.
C2_Witness ==
    /\ lastCall.op = "uploadBackup"
    /\ ~lastCall.hadToken
    /\ providerSignedIn
    /\ Len(driveFiles) > 0

\* C3 (SpecDrive): a data operation called while the client holds no
\* access token fails with the not-authenticated error; it does not return
\* an empty list, false or null, nor fail with another error.
C3_UnauthenticatedCallFailsNotAuthenticated ==
    UnauthenticatedDataCall =>
        /\ lastCall.outcome = "throws"
        /\ lastCall.error = NotAuthenticatedMessage

RestoreCalled == fileCall.op = "restoreFromBackup"
DataIsSequence(file) == file.parses /\ ~file.isNull /\ file.dataKind = "array"
HasBothFields(item) ==
    ~item.isNull /\ item.fileName # Undefined /\ item.salesData # Undefined

\* The positions of the items that have both fields and whose write met no
\* storage failure.
WrittenPositions ==
    {i \in 1..Len(fileCall.file.data) :
        /\ HasBothFields(fileCall.file.data[i])
        /\ fileCall.failStages[i] = "none"}

\* C4 (SpecFiles): for a payload whose data is a sequence restoreFromBackup
\* returns counts with success + failed = length of data and one error per
\* failed item; success is the number of items that have both fields and
\* whose write succeeded; every such item is afterwards readable under its
\* fileName with its salesData.
C4_RestoreCountsEveryItem ==
    (RestoreCalled /\ DataIsSequence(fileCall.file)) =>
        /\ fileCall.outcome = "returns"
        /\ fileCall.results.success + fileCall.results.failed = Len(fileCall.file.data)
        /\ Len(fileCall.results.errors) = fileCall.results.failed
        /\ fileCall.results.success = Cardinality(WrittenPositions)
        /\ \A i \in WrittenPositions :
             readSalesFile(store, fileCall.file.data[i].fileName, FALSE)
                 = JSONparse(fileCall.file.data[i].salesData)

\* C5 (SpecFiles): once the bytes parsed and data is a sequence,
\* restoreFromBackup returns a result and never raises, whatever the items
\* and the write failures; no call raises after it wrote a record.
C5_RestoreNeverRaisesAfterDecoding ==
    /\ (RestoreCalled /\ DataIsSequence(fileCall.file)) => fileCall.outcome = "returns"
    /\ (RestoreCalled /\ fileCall.outcome = "throws") => ~fileCall.changed

InvalidFormatMessage == "Failed to restore backup: Error: Invalid backup file format"

\* C6 (SpecFiles): restoreFromBackup raises its invalid-format failure
\* exactly when the decoded payload has no data field or data is not a
\* sequence; then, and when the bytes do not parse, no record is written
\* or changed.
C6_InvalidFormatExactlyWithoutData ==
    RestoreCalled =>
        /\ fileCall.file.parses =>
             ((fileCall.outcome = "throws" /\ fileCall.error = InvalidFormatMessage)
                 <=> ~DataIsSequence(fileCall.file))
        /\ ~DataIsSequence(fileCall.file) => ~fileCall.changed

BackupCreated == backupJson # <<>>

\* What listSalesFiles returned to createBackup and which of it
\* readSalesFile could read then.
ListedAtBackup == listSalesFiles(backupOrigin.store, backupOrigin.failList)
ReadAtBackup(name) == readSalesFile(backupOrigin.store, name, name \in backupOrigin.failReads)
ReadableAtBackup ==
    LET Readable(f) == ReadAtBackup(f.name) # "null"
    IN  SelectSeq(ListedAtBackup, Readable)

\* C7 (SpecBackup): the payload of createBackup parses, and its data holds
\* exactly one element per listed record that could be read, in the order
\* of the listing, with the record's name and its stored salesData.
C7_BackupHoldsReadableRecords ==
    BackupCreated =>
        LET file == backupJson[1]
            data == ParseItems(file.data)
        IN  /\ file.parses /\ ~file.isNull /\ file.dataKind = "array"
            /\ Len(data) = Len(ReadableAtBackup)
            /\ \A i \in 1..Len(data) :
                 /\ i <= Len(ReadableAtBackup)
                 /\ data[i].fileName = ReadableAtBackup[i].name
                 /\ data[i].salesData = JSONparse(backupOrigin.store[data[i].fileName].content)

\* C7 witness: a backup of two listed records, one of which could not be
\* read and was left out.
C7_Witness ==
    /\ BackupCreated
    /\ fileCall.op = "createBackup"
    /\ Len(ListedAtBackup) = 2
    /\ Len(backupJson[1].data) = 1

AllReadableAtBackup ==
    /\ ~backupOrigin.failList
    /\ \A name \in SalesNames :
         backupOrigin.store[name].exists => ReadAtBackup(name) # "null"

RestoredBackup == BackupCreated /\ RestoreCalled /\ fileCall.file = backupJson[1]

RoundTripHolds ==
    /\ fileCall.outcome = "returns"
    /\ fileCall.results.failed = 0
    /\ \A i \in 1..Len(backupJson[1].data) :
         LET name == backupJson[1].data[i].fileName
         IN  readSalesFile(store, name, FALSE) = JSONparse(backupOrigin.store[name].content)

NoWriteFailed == \A i \in DOMAIN fileCall.failStages : fileCall.failStages[i] = "none"

ReportedErrors == {validation.errors[i] : i \in 1..Len(validation.errors)}
MissingFileName(item) == item.isNull \/ item.fileName = Undefined
MissingSalesData(item) == item.isNull \/ item.salesData = Undefined
InspectedPositions == 1..Min(Len(candidate.data), PreviewLimit)
ExpectedItemErrors ==
    {Error("Missing fileName", i) : i \in {j \in InspectedPositions : MissingFileName(candidate.data[j])}}
    \cup {Error("Missing salesData", i) : i \in {j \in InspectedPositions : MissingSalesData(candidate.data[j])}}

\* C9 (SpecValidate): for a payload that parses, the errors hold a
\* timestamp error iff timestamp is missing, a version error iff version is
\* missing, a data error iff data is missing or no sequence, and the errors
\* of the inspected items, whatever else is wrong; valid iff no error.
C9_ValidateReportsEveryDefect ==
    (validation.called /\ candidate.parses) =>
        /\ Error("Missing timestamp", 0) \in ReportedErrors
             <=> (candidate.isNull \/ candidate.timestamp = Absent)
        /\ Error("Missing version", 0) \in ReportedErrors
             <=> (candidate.isNull \/ candidate.version = Undefined)
        /\ Error("Missing or invalid data array", 0) \in ReportedErrors
             <=> ~DataIsSequence(candidate)
        /\ DataIsSequence(candidate) => ExpectedItemErrors \subseteq ReportedErrors
        /\ validation.valid <=> validation.errors = <<>>

\* C10 (SpecValidate): the item errors are exactly one per missing
\* fileName and one per missing salesData among the first 5 elements, each
\* naming the 1-based index; later elements add none, so a payload whose
\* only defects lie after the fifth element is valid.
C10_ValidateInspectsFirstFive ==
    (validation.called /\ DataIsSequence(candidate)) =>
        LET IsItemError(e) == e.item > 0
            itemErrors == SelectSeq(validation.errors, IsItemError)
        IN  /\ {itemErrors[i] : i \in 1..Len(itemErrors)} = ExpectedItemErrors
            /\ Len(itemErrors) = Cardinality(ExpectedItemErrors)
            /\ (ExpectedItemErrors = {} /\ candidate.timestamp # Absent
                    /\ candidate.version # Undefined) => validation.valid

\* C11 (SpecValidate): validateBackupFile changes neither the record store
\* nor the remote store nor the session (access token, cached folder id),
\* and returns a result for every input; for input that does not parse the
\* result is invalid and carries an error.
C11_ValidateIsReadOnly ==
    [][/\ validation'.called
       /\ UNCHANGED <<store, driveFolders, driveFiles, accessToken, backupFolderId>>
       /\ ~candidate.parses => (~validation'.valid /\ validation'.errors # <<>>)]_vars

\* C11 witness: a file that does not parse was validated in a signed-in
\* session with a record in the store and a backup in the remote store.
C11_Witness ==
    /\ validation.called
    /\ ~candidate.parses
    /\ ~validation.valid
    /\ accessToken = Token
    /\ store # EmptyStore
    /\ driveFiles # <<>>

\* C13 (SpecDrive): after signOut returned the client holds neither an
\* access token nor a cached folder id, whether the provider's sign-out
\* succeeded or failed or the client was signed out already.
C13_SignOutClearsSession ==
    lastCall.op = "signOut" =>
        /\ lastCall.outcome = "returns"
        /\ accessToken = NoToken
        /\ backupFolderId = NoId

SignInStep(initOk) == \E prompt \in PromptOutcomes : signIn(initOk, prompt)

FoundSignedIn ==
    /\ lastCall'.outcome = "returns"
    /\ lastCall'.value = "true"
    /\ accessToken' = Token
    /\ ~lastCall'.prompted

Authenticated == accessToken # NoToken

OrchestratorStep ==
    \/ \E failList \in BOOLEAN, failReads \in SUBSET {"sales_2025-01-15.json"},
          fail \in UploadFailures :
         syncBackupToGoogleDrive(failList, failReads, fail)
    \/ \E id \in DriveIds, failRequest \in BOOLEAN : restoreFromGoogleDriveBackup(id, failRequest)

\* C12 (SpecSync): syncBackupToGoogleDrive and restoreFromGoogleDriveBackup
\* called while the client is not authenticated throw the not-connected
\* error before anything else: no backup is built, no request of the
\* client is issued, no record is written.
C12_NotSignedInFailsNotConnected ==
    [][(~Authenticated /\ OrchestratorStep) =>
          /\ fileCall'.outcome = "throws"
          /\ fileCall'.error = NotConnectedMessage
          /\ UNCHANGED <<backupJson, store, driveFolders, driveFiles>>
          /\ lastCall'.op = lastCall.op]_vars

\* C17 (SpecSync): listSalesFiles and listBackups never throw; when the
\* scan of the directory or the remote listing fails, the call returns the
\* empty sequence, not an error and not the entries found before the failure.
C17_ListingsDegradeToEmpty ==
    /\ fileCall.op = "listSalesFiles" =>
          /\ fileCall.outcome = "returns"
          /\ fileCall.failed => fileCall.list = <<>>
    /\ lastCall.op = "listBackups" =>
          /\ lastCall.outcome = "returns"
          /\ lastCall.failed => lastCall.list = <<>>

C17_Witness ==
    /\ fileCall.op = "listSalesFiles" /\ fileCall.failed /\ fileCall.list = <<>>
    /\ store # EmptyStore
    /\ lastCall.op = "listBackups" /\ lastCall.failed /\ lastCall.hadToken
    /\ driveFiles # <<>>

\* name matches sales_<YYYY-MM-DD>.json
MatchesSalesPattern(name) == name \in DatedSalesNames

Listed == fileCall.list
ListedNames == {Listed[i].name : i \in 1..Len(Listed)}

\* C18 (SpecList): a listSalesFiles that did not fail returns exactly the
\* stored entries whose name matches sales_<YYYY-MM-DD>.json, once each,
\* with the date of the name, ordered by lastModified descending.
C18_ListsExactlyDatedSalesFiles ==
    (fileCall.op = "listSalesFiles" /\ ~fileCall.failed) =>
        /\ ListedNames = {name \in FileNames : store[name].exists /\ MatchesSalesPattern(name)}
        /\ Len(Listed) = Cardinality(ListedNames)
        /\ \A i \in 1..Len(Listed) :
              /\ Listed[i].date = DateOfName(Listed[i].name)
              /\ Listed[i].date # "Unknown"
              /\ Listed[i].lastModified = store[Listed[i].name].lastModified
        /\ \A i, j \in 1..Len(Listed) :
              i < j => Listed[i].lastModified >= Listed[j].lastModified

\* The positions of the items of the restore just made that were counted
\* as success under the name, and the names of the payload.
WrittenUnder(name) ==
    {i \in 1..Len(fileCall'.log) :
        /\ fileCall'.log[i].what = "written"
        /\ fileCall'.log[i].item.fileName = name}
LastOf(positions) == CHOOSE i \in positions : \A j \in positions : j <= i
PayloadNames ==
    {candidate.data[i].fileName : i \in {j \in 1..Len(candidate.data) : ~candidate.data[j].isNull}}

\* C19 (SpecFiles): after restoreFromBackup returns, every name with a
\* successfully written item holds the salesData of the last such item,
\* whatever it held before, and a name outside the payload holds what it
\* held before.
C19_RestoreIsLastWriteWins ==
    [][(restorePickedFile /\ fileCall'.outcome = "returns") =>
          \A name \in FileNames :
             /\ WrittenUnder(name) # {} =>
                   readSalesFile(store', name, FALSE)
                       = fileCall'.log[LastOf(WrittenUnder(name))].item.salesData
             /\ name \notin PayloadNames => store'[name] = store[name]]_vars

\* C14 (SpecRace): over the findOrCreateBackupFolder calls of one session,
\* overlapping ones included, the store holds at most one backup folder,
\* every call that returned got the same id, and a call started after the
\* id was cached does not query the store.
C14_OneFolderOneId ==
    /\ Len(driveFolders) <= 1
    /\ \A c, d \in Callers :
          (pending[c].folderId # NoId /\ pending[d].folderId # NoId) =>
              pending[c].folderId = pending[d].folderId
    /\ \A c \in Callers : pending[c].cachedAtStart => ~pending[c].queried

\* C20 (SpecRace): when two uploads of the same fileName overlap, the
\* container never holds two entries of that name, and once both settled
\* the entry holds the content of the upload that settled last.
C20_SameNameUploadsSerialized ==
    /\ Cardinality(NamedEntries(SyncFileName)) <= 1
    /\ (/\ Len(settled) = Cardinality(Callers)
        /\ \A c \in Callers : pending[c].op = "uploadBackup" /\ pending[c].value # NoId) =>
          \A i \in NamedEntries(SyncFileName) :
             driveFiles[i].content = pending[settled[Len(settled)]].data

\* C15 (SpecSignIn): every signIn call in flight eventually returns or
\* throws, and a prompt that lost against the timer throws the blocked
\* reason and leaves the access token unset.
C15_SignInCompletes ==
    /\ [](signInPc \notin SignInSettled => <>(signInPc \in SignInSettled))
    /\ [][promptSettled("timeout") =>
            /\ signInPc' = "threw"
            /\ lastCall'.error = BlockedMessage
            /\ accessToken' = NoToken]_vars

\* C21 (SpecDrive): after a data operation whose request the store
\* rejected with a 401 response, the client no longer holds the rejected
\* token: it left the Authenticated state or replaced the token.
C21_RejectedTokenIsDropped ==
    (lastCall.op \in DataOps /\ lastCall.status = "401") => accessToken # Token

\* C22 (SpecBackup): in every payload produced by createBackup, fileCount
\* is the number of elements of data, also when listed records could not
\* be read and were left out.
C22_FileCountIsDataLength ==
    BackupCreated => backupJson[1].fileCount = Len(backupJson[1].data)

\* C23 (SpecFiles): a record write of a restore is all-or-nothing: a name
\* none of whose items was written successfully shows afterwards what it
\* showed before, to listSalesFiles and to readSalesFile; a failed write
\* leaves no new entry, empty or partial.
ListedUnder(st, name) ==
    SelectSeq(listSalesFiles(st, FALSE), LAMBDA f : f.name = name)

C23_FailedWriteLeavesNoTrace ==
    [][restorePickedFile =>
          \A name \in FileNames :
             WrittenUnder(name) = {} =>
                /\ ListedUnder(store', name) = ListedUnder(store, name)
                /\ readSalesFile(store', name, FALSE) = readSalesFile(store, name, FALSE)]_vars

\* totals.total = totals.cash + totals.card + totals.digital
TotalsBalanced(summary) == summary \in Summaries

\* C24 (SpecFiles): every SalesSummary persisted in the record store has
\* totals.total = totals.cash + totals.card + totals.digital, also after
\* the restore of a payload that validateBackupFile finds valid.
C24_PersistedTotalsBalanced ==
    (RestoreCalled /\ validateBackupFileResult(fileCall.file).valid) =>
        \A name \in FileNames :
           (store[name].exists /\ store[name].content \in SalesSummaryObjects) =>
               TotalsBalanced(store[name].content)

\* C25 (SpecSync): a failed connectToGoogleDrive hands its caller the reason
\* signIn failed with, so that the caller can tell the reasons apart, and a
\* prompt that timed out is not reported as a blocked popup.
C25_AuthFailureKeepsItsReason ==
    [][\A initOk \in BOOLEAN, prompt \in PromptOutcomes :
          (connectToGoogleDrive(initOk, prompt) /\ fileCall'.outcome = "throws") =>
             /\ fileCall'.error = lastCall'.error
             /\ prompt = "timeout" => fileCall'.error # BlockedMessage]_vars

\* C26 (SpecSync): whenever isConnectedToGoogleDrive is true (the
\* provider's isSignedIn), the GoogleDriveAPI instance holds an access
\* token.
C26_ConnectedImpliesToken ==
    isSignedIn => accessToken # NoToken

\* C27 (SpecRace): in no state is the cached backup folder id set while
\* the access token is null, also when a sign-out completes while an
\* upload or a listing is in flight.
C27_NoFolderIdWithoutToken ==
    accessToken = NoToken => backupFolderId = NoId

\* C28 (SpecDrive): uploadBackup adds no entry for a fileName the
\* container already holds, also when the listing of its existence check
\* fails: the call throws or updates the entry.
C28_UploadAddsNoDuplicate ==
    [][\A data \in BackupContents, name \in BackupNames, fail \in UploadFailures :
          (uploadBackup(data, name, fail) /\ NamedEntries(name) # {}) =>
              Len(driveFiles') = Len(driveFiles)]_vars

\* C29 (SpecRestore): a restore started by the user writes a record only
\* after validateBackupFile returned valid = true for the payload it
\* restores and the user confirmed, for the restore of a picked file and
\* for the restore from Google Drive.
C29_RestoreOnlyAfterValidation ==
    [][(store' # store) =>
          /\ validation'.called
          /\ validation'.valid
          /\ validation' = validateBackupFileResult(fileCall'.file)
          /\ \A confirmed \in BOOLEAN : handleBackupRestore(confirmed) => confirmed
          /\ \A id \in DriveIds, confirmed \in BOOLEAN, failRequest \in BOOLEAN :
                handleRestoreFromDrive(id, confirmed, failRequest) => confirmed]_vars

\* The FileManager calls that the loading flag of the component covers.
LoadingOps ==
    {"connectToGoogleDrive", "disconnectFromGoogleDrive", "listGoogleDriveBackups",
     "restoreFromGoogleDriveBackup", "deleteGoogleDriveBackup"}

\* C30 (SpecPanel): loading is true in every state in which a connect,
\* disconnect, list, restore or delete call of the Drive panel is in flight;
\* the list refresh after a sync never turns it off under a restore or a
\* delete that is still running.
C30_LoadingWhileInFlight ==
    \A h \in Handlers : panel.running[h].awaits \in LoadingOps => panel.loading

====
